---- MODULE Spec2Model ----
(***************************************************************************)
(* RustyRogue (src/src/main.rs): the entity table, the combat resolver,    *)
(* the map generator and the turn loop of main(), as a state machine.      *)
(*                                                                         *)
(* The grid and the room sizes are scaled down (MapW, MapH, RoomMin,       *)
(* RoomMax, MaxRooms, MaxRoomMonsters stand for MAP_WIDTH, MAP_HEIGHT,     *)
(* ROOM_MIN_SIZE, ROOM_MAX_SIZE, MAX_ROOMS, MAX_ROOM_MONSTERS); the         *)
(* Fighter statistics are the literals of the source.                      *)
(***************************************************************************)
EXTENDS Integers, Sequences, FiniteSets, TLC

\* ------------------------------------------------------------------ bounds
\* scaled MAP_WIDTH / MAP_HEIGHT (main.rs:15-16)
MapW == 5
MapH == 5
\* scaled ROOM_MIN_SIZE / ROOM_MAX_SIZE (main.rs:24-25)
RoomMin == 4
RoomMax == 4
\* scaled MAX_ROOMS (main.rs:26) and MAX_ROOM_MONSTERS (main.rs:32)
MaxRooms == 1
MaxRoomMonsters == 2
\* scaled SCREEN_WIDTH / SCREEN_HEIGHT (main.rs:9-10): they place the NPC
ScreenW == 12
ScreenH == 2
\* scaled hit points of the player (the literal 30 of main.rs:299-300)
PlayerHp == 3

\* ------------------------------------------------------- program constants
TORCH_RADIUS == 10
PLAYER == 0

\* --------------------------------------------------------------- Option<T>
None == <<>>
Some(v) == <<v>>
is_some(o) == o # <<>>
unwrap(o) == o[1]

\* ------------------------------------------------- Vec<T>, indexed from 0
VecLen(v) == Cardinality(DOMAIN v)
VecPush(v, e) == [i \in 0..VecLen(v) |-> IF i < VecLen(v) THEN v[i] ELSE e]
EmptyVec == [i \in {} |-> 0]

\* --------------------------------------------------------------- entities
\* Object::new: alive is false, no components
Object_new(x, y, sprite, colour, name, blocks) ==
    [x |-> x, y |-> y, sprite |-> sprite, colour |-> colour, name |-> name,
     blocks |-> blocks, alive |-> FALSE, fighter |-> None, ai |-> None]

pos(o) == <<o.x, o.y>>

set_pos(o, x, y) == [o EXCEPT !.x = x, !.y = y]

\* the square of distance_to; sqrt(d2) >= 2.0 iff d2 >= 4
distance2_to(o, other) ==
    LET dx == other.x - o.x
        dy == other.y - o.y
    IN dx * dx + dy * dy

\* a printed line: out is the text printed by println! since the last step
Line(kind, a, b, n) == <<kind, a, b, n>>

\* player_death: prints, changes sprite and colour only
player_death(w) ==
    [obj |-> [w.obj EXCEPT !.sprite = "%", !.colour = "DARK_RED"],
     out |-> Append(w.out, Line("You died!", "", "", 0)),
     deaths |-> w.deaths + 1]

\* monster_death as it would be without `monster.ai = None`
monster_death_keeps_ai(w) ==
    [obj |-> [w.obj EXCEPT !.sprite = "%", !.colour = "DARK_RED",
                            !.blocks = FALSE, !.fighter = None,
                            !.name = "remains of " \o w.obj.name],
     out |-> Append(w.out, Line("is dead!", w.obj.name, "", 0)),
     deaths |-> w.deaths + 1]

\* monster_death as it would be without `monster.fighter = None`
monster_death_keeps_fighter(w) ==
    [obj |-> [w.obj EXCEPT !.sprite = "%", !.colour = "DARK_RED",
                            !.blocks = FALSE, !.ai = None,
                            !.name = "remains of " \o w.obj.name],
     out |-> Append(w.out, Line("is dead!", w.obj.name, "", 0)),
     deaths |-> w.deaths + 1]

\* monster_death: corpse, no blocking, no Fighter, no Ai, renamed
monster_death(w) ==
    [obj |-> [w.obj EXCEPT !.sprite = "%", !.colour = "DARK_RED",
                            !.blocks = FALSE, !.fighter = None, !.ai = None,
                            !.name = "remains of " \o w.obj.name],
     out |-> Append(w.out, Line("is dead!", w.obj.name, "", 0)),
     deaths |-> w.deaths + 1]

\* DeathCallback::callback
callback(on_death, w) ==
    IF on_death = "Player" THEN player_death(w) ELSE monster_death(w)

\* take_damage as it would be with `fighter.hp < 0` for the death test
take_damage_strict(w, damage) ==
    LET o1 == IF is_some(w.obj.fighter) /\ damage > 0
              THEN [w.obj EXCEPT !.fighter =
                       Some([unwrap(w.obj.fighter) EXCEPT !.hp = @ - damage])]
              ELSE w.obj
    IN IF is_some(o1.fighter) /\ unwrap(o1.fighter).hp < 0
       THEN callback(unwrap(o1.fighter).on_death,
                     [w EXCEPT !.obj = [o1 EXCEPT !.alive = FALSE]])
       ELSE [w EXCEPT !.obj = o1]

\* take_damage as it would be without `self.alive = false`
take_damage_keeps_alive(w, damage) ==
    LET o1 == IF is_some(w.obj.fighter) /\ damage > 0
              THEN [w.obj EXCEPT !.fighter =
                       Some([unwrap(w.obj.fighter) EXCEPT !.hp = @ - damage])]
              ELSE w.obj
    IN IF is_some(o1.fighter) /\ unwrap(o1.fighter).hp <= 0
       THEN callback(unwrap(o1.fighter).on_death, [w EXCEPT !.obj = o1])
       ELSE [w EXCEPT !.obj = o1]

\* Object::take_damage on w.obj; w.out collects the printed lines and
\* w.deaths counts the calls of the death callback
take_damage(w, damage) ==
    LET o1 == IF is_some(w.obj.fighter) /\ damage > 0
              THEN [w.obj EXCEPT !.fighter =
                       Some([unwrap(w.obj.fighter) EXCEPT !.hp = @ - damage])]
              ELSE w.obj
    IN IF is_some(o1.fighter) /\ unwrap(o1.fighter).hp <= 0
       THEN callback(unwrap(o1.fighter).on_death,
                     [w EXCEPT !.obj = [o1 EXCEPT !.alive = FALSE]])
       ELSE [w EXCEPT !.obj = o1]

\* attack as it would be with the defence left out of the formula
attack_ignores_defence(attacker, w) ==
    LET damage == IF is_some(attacker.fighter)
                  THEN unwrap(attacker.fighter).power ELSE 0
    IN IF damage > 0
       THEN take_damage(
              [w EXCEPT !.out = Append(@, Line("attacks", attacker.name,
                                               w.obj.name, damage))],
              damage)
       ELSE [w EXCEPT !.out = Append(@, Line("no effect", attacker.name,
                                             w.obj.name, 0))]

\* Object::attack: the attacker is read only
attack(attacker, w) ==
    LET power == IF is_some(attacker.fighter)
                 THEN unwrap(attacker.fighter).power ELSE 0
        defence == IF is_some(w.obj.fighter)
                   THEN unwrap(w.obj.fighter).defence ELSE 0
        damage == power - defence
    IN IF damage > 0
       THEN take_damage(
              [w EXCEPT !.out = Append(@, Line("attacks", attacker.name,
                                               w.obj.name, damage))],
              damage)
       ELSE [w EXCEPT !.out = Append(@, Line("no effect", attacker.name,
                                             w.obj.name, 0))]

\* -------------------------------------------------------------------- map
Tile_empty == [blocked |-> FALSE, explored |-> FALSE, block_sight |-> FALSE]
Tile_wall == [blocked |-> TRUE, explored |-> FALSE, block_sight |-> TRUE]

Rect_new(x, y, w, h) == [x1 |-> x, y1 |-> y, x2 |-> x + w, y2 |-> y + h]

centre(r) == <<(r.x1 + r.x2) \div 2, (r.y1 + r.y2) \div 2>>

\* intersects_with as it would be with strict comparisons
intersects_with_strict(r, other) ==
    /\ r.x1 < other.x2
    /\ r.x2 > other.x1
    /\ r.y1 < other.y2
    /\ r.y2 > other.y1

intersects_with(r, other) ==
    /\ r.x1 <= other.x2
    /\ r.x2 >= other.x1
    /\ r.y1 <= other.y2
    /\ r.y2 >= other.y1

Min(a, b) == IF a <= b THEN a ELSE b
Max(a, b) == IF a >= b THEN a ELSE b

InGrid(map, x, y) == x \in DOMAIN map /\ y \in DOMAIN map[x]

\* map[x][y] = Tile::empty() for every cell of cells; oob records an index
\* outside the grid (a panic of the indexing in the source)
Carve(g, cells) ==
    [g EXCEPT !.map = [x \in DOMAIN g.map |-> [y \in DOMAIN g.map[x] |->
                         IF <<x, y>> \in cells THEN Tile_empty ELSE g.map[x][y]]],
              !.oob = @ \/ \E c \in cells : ~InGrid(g.map, c[1], c[2])]

\* create_room as it would be if it carved the bounds of the room as well
create_room_carves_bounds(room, g) ==
    Carve(g, (room.x1..room.x2) \X (room.y1..room.y2))

create_room(room, g) ==
    Carve(g, ((room.x1 + 1)..(room.x2 - 1)) \X ((room.y1 + 1)..(room.y2 - 1)))

create_h_tunnel(x1, x2, y, g) == Carve(g, (Min(x1, x2)..Max(x1, x2)) \X {y})

create_v_tunnel(y1, y2, x, g) == Carve(g, {x} \X (Min(y1, y2)..Max(y1, y2)))

\* is_blocked as it would be with the tile test alone
is_blocked_tile_only(x, y, map, objects) == map[x][y].blocked

\* is_blocked: the tile first, then any blocking object on the cell
is_blocked(x, y, map, objects) ==
    \/ map[x][y].blocked
    \/ \E i \in DOMAIN objects : objects[i].blocks /\ pos(objects[i]) = <<x, y>>

Orc(x, y) ==
    [Object_new(x, y, "O", "DESATURATED_GREEN", "Orc", TRUE) EXCEPT
        !.fighter = Some([max_hp |-> 10, hp |-> 10, defence |-> 0, power |-> 3,
                          on_death |-> "Monster"]),
        !.ai = Some("Basic")]

Troll(x, y) ==
    [Object_new(x, y, "T", "DARKER_GREEN", "Troll", TRUE) EXCEPT
        !.fighter = Some([max_hp |-> 16, hp |-> 16, defence |-> 1, power |-> 4,
                          on_death |-> "Monster"]),
        !.ai = Some("Basic")]

\* place_objects: draws is the sequence of the random draws of the loop, one
\* [x, y, orc] per monster (orc: the f32 draw was below 0.8); its length is
\* num_monsters
RECURSIVE place_objects(_, _, _, _)
place_objects(room, objects, map, draws) ==
    IF draws = <<>> THEN objects
    ELSE LET d == Head(draws)
             placed ==
               IF ~is_blocked(d.x, d.y, map, objects)
               THEN VecPush(objects,
                      [(IF d.orc THEN Orc(d.x, d.y) ELSE Troll(d.x, d.y))
                         EXCEPT !.alive = TRUE])
               ELSE objects
         IN place_objects(room, placed, map, Tail(draws))

\* the test of a trial of make_map: the new room meets an accepted room
room_failed(rooms, new_room) ==
    \E k \in DOMAIN rooms : intersects_with(new_room, rooms[k])

\* the body of `if !failed` as it would be with the vertical leg of the
\* horizontal-first tunnel dug at prev_x instead of new_x
accept_room_leg_at_prev_x(g, new_room, monsters, coin) ==
    LET g1 == create_room(new_room, g)
        g2 == [g1 EXCEPT !.objects =
                 place_objects(new_room, g1.objects, g1.map, monsters)]
        new == centre(new_room)
        prev == centre(g.rooms[Len(g.rooms)])
        g3 == IF g.rooms = <<>>
              THEN [g2 EXCEPT !.objects[PLAYER] = set_pos(@, new[1], new[2])]
              ELSE IF coin
                   THEN create_v_tunnel(prev[2], new[2], prev[1],
                          create_h_tunnel(prev[1], new[1], prev[2], g2))
                   ELSE create_h_tunnel(prev[1], new[1], new[2],
                          create_v_tunnel(prev[2], new[2], prev[1], g2))
    IN [g3 EXCEPT !.rooms = Append(@, new_room)]

\* the body of `if !failed` as it would be if every accepted room, not only
\* the first, set the player's position
accept_room_always_sets_player(g, new_room, monsters, coin) ==
    LET g1 == create_room(new_room, g)
        g2 == [g1 EXCEPT !.objects =
                 place_objects(new_room, g1.objects, g1.map, monsters)]
        new == centre(new_room)
        prev == centre(g.rooms[Len(g.rooms)])
        g3 == IF g.rooms = <<>>
              THEN [g2 EXCEPT !.objects[PLAYER] = set_pos(@, new[1], new[2])]
              ELSE [(IF coin
                     THEN create_v_tunnel(prev[2], new[2], new[1],
                            create_h_tunnel(prev[1], new[1], prev[2], g2))
                     ELSE create_h_tunnel(prev[1], new[1], new[2],
                            create_v_tunnel(prev[2], new[2], prev[1], g2)))
                    EXCEPT !.objects[PLAYER] = set_pos(@, new[1], new[2])]
    IN [g3 EXCEPT !.rooms = Append(@, new_room)]

\* the body of `if !failed` in make_map, on g = [map, objects, rooms, oob];
\* monsters holds the random draws of place_objects, coin the random bool of
\* the tunnel
accept_room(g, new_room, monsters, coin) ==
    LET g1 == create_room(new_room, g)
        g2 == [g1 EXCEPT !.objects =
                 place_objects(new_room, g1.objects, g1.map, monsters)]
        new == centre(new_room)
        prev == centre(g.rooms[Len(g.rooms)])
        g3 == IF g.rooms = <<>>
              THEN [g2 EXCEPT !.objects[PLAYER] = set_pos(@, new[1], new[2])]
              ELSE IF coin
                   THEN create_v_tunnel(prev[2], new[2], new[1],
                          create_h_tunnel(prev[1], new[1], prev[2], g2))
                   ELSE create_h_tunnel(prev[1], new[1], new[2],
                          create_v_tunnel(prev[2], new[2], prev[1], g2))
    IN [g3 EXCEPT !.rooms = Append(@, new_room)]

\* The random draws of place_objects for one monster; gen_range(low, high)
\* is low..high-1, and orc is the outcome of random::<f32>() < 0.8, drawn
\* for every monster
MonsterDraws(room) ==
    [x : (room.x1 + 1)..(room.x2 - 1), y : (room.y1 + 1)..(room.y2 - 1),
     orc : BOOLEAN]

\* the draws of one call of place_objects: num_monsters in 0..max_monsters,
\* then one draw per monster
MonsterDrawSeqs(room, max_monsters) ==
    UNION {[1..n -> MonsterDraws(room)] : n \in 0..max_monsters}

\* --------------------------------------------------------------------- FOV
\* tcod's compute_fov (library code, FovAlgorithm::Basic with light_walls):
\* a cell is in the field of view when it is within the radius and no
\* sight-blocking tile lies strictly between the origin and the cell on the
\* straight grid line joining them
LineCell(px, py, x, y, k, n) ==
    <<px + ((2 * k * (x - px) + n) \div (2 * n)),
      py + ((2 * k * (y - py) + n) \div (2 * n))>>

Abs(a) == IF a < 0 THEN -a ELSE a

compute_fov(map, px, py) ==
    {c \in (DOMAIN map) \X (DOMAIN map[0]) :
        LET dx == c[1] - px
            dy == c[2] - py
            n == Max(Abs(dx), Abs(dy))
        IN /\ dx * dx + dy * dy <= TORCH_RADIUS * TORCH_RADIUS
           /\ \A k \in 1..(n - 1) :
                LET m == LineCell(px, py, c[1], c[2], k, n)
                IN ~map[m[1]][m[2]].block_sight}

\* ------------------------------------------------------------- turn engine
\* A world wd is the mutable state the turn functions work on: the objects,
\* the lines printed so far in this step, the number of calls of the death
\* callback per object, and whether an assertion or an index panicked.

\* mut_two: the two elements, or None when the assertion fails
mut_two(first_index, second_index, items) ==
    IF first_index # second_index
    THEN Some(<<items[first_index], items[second_index]>>)
    ELSE None

\* the attack as it would be if the changed defender were stored at the
\* attacker's index
attack_two_stores_at_attacker(attacker_id, target_id, wd) ==
    LET two == mut_two(attacker_id, target_id, wd.objects)
        r == attack(unwrap(two)[1],
                    [obj |-> unwrap(two)[2], out |-> wd.out,
                     deaths |-> wd.deaths[target_id]])
    IN IF ~is_some(two) THEN [wd EXCEPT !.panic = TRUE]
       ELSE [wd EXCEPT !.objects[attacker_id] = r.obj, !.out = r.out,
                       !.deaths[target_id] = r.deaths]

\* let (a, b) = mut_two(attacker_id, target_id, objects); a.attack(b)
attack_two(attacker_id, target_id, wd) ==
    LET two == mut_two(attacker_id, target_id, wd.objects)
        r == attack(unwrap(two)[1],
                    [obj |-> unwrap(two)[2], out |-> wd.out,
                     deaths |-> wd.deaths[target_id]])
    IN IF ~is_some(two) THEN [wd EXCEPT !.panic = TRUE]
       ELSE [wd EXCEPT !.objects[target_id] = r.obj, !.out = r.out,
                       !.deaths[target_id] = r.deaths]

\* move_by: indexing map outside the grid panics
move_by(id, dx, dy, map, wd) ==
    LET x == wd.objects[id].x
        y == wd.objects[id].y
    IN IF ~InGrid(map, x + dx, y + dy) THEN [wd EXCEPT !.panic = TRUE]
       ELSE IF ~is_blocked(x + dx, y + dy, map, wd.objects)
            THEN [wd EXCEPT !.objects[id] = set_pos(@, x + dx, y + dy)]
            ELSE wd

\* the position() search of player_move_or_attack: the first index whose
\* object has a Fighter and stands on (x, y)
find_target(x, y, objects) ==
    LET hits == {i \in DOMAIN objects :
                   is_some(objects[i].fighter) /\ pos(objects[i]) = <<x, y>>}
    IN IF hits = {} THEN None
       ELSE Some(CHOOSE i \in hits : \A j \in hits : i <= j)

player_move_or_attack(dx, dy, map, wd) ==
    LET x == wd.objects[PLAYER].x + dx
        y == wd.objects[PLAYER].y + dy
        target_id == find_target(x, y, wd.objects)
    IN IF is_some(target_id)
       THEN attack_two(PLAYER, unwrap(target_id), wd)
       ELSE move_by(PLAYER, dx, dy, map, wd)

Sign(a) == IF a > 0 THEN 1 ELSE IF a < 0 THEN -1 ELSE 0

\* the component as it would be with the cast alone, without round():
\* the cast truncates, so only |d| = distance gives a non-zero component
round_unit_truncates(d, d2) ==
    IF d2 = 0 THEN 0 ELSE IF d * d = d2 THEN Sign(d) ELSE 0

\* (d as f32 / distance).round() as i32 with distance = sqrt(d2):
\* |d| / distance >= 0.5 iff 4 d^2 >= d2; 0/0 is NaN, which casts to 0
round_unit(d, d2) ==
    IF d2 = 0 THEN 0 ELSE IF 4 * d * d >= d2 THEN Sign(d) ELSE 0

move_towards(id, target_x, target_y, map, wd) ==
    LET dx == target_x - wd.objects[id].x
        dy == target_y - wd.objects[id].y
        d2 == dx * dx + dy * dy
    IN move_by(id, round_unit(dx, d2), round_unit(dy, d2), map, wd)

\* ai_take_turn as it would be without the test that the player has hp > 0
ai_take_turn_no_hp_test(monster_id, fov, map, wd) ==
    LET monster == wd.objects[monster_id]
        player == wd.objects[PLAYER]
    IN IF pos(monster) \in fov
       THEN IF distance2_to(monster, player) >= 4
            THEN move_towards(monster_id, player.x, player.y, map, wd)
            ELSE attack_two(monster_id, PLAYER, wd)
       ELSE wd

\* ai_take_turn as it would be without the is_in_fov test
ai_take_turn_ignores_fov(monster_id, fov, map, wd) ==
    LET monster == wd.objects[monster_id]
        player == wd.objects[PLAYER]
    IN IF distance2_to(monster, player) >= 4
       THEN move_towards(monster_id, player.x, player.y, map, wd)
       ELSE IF is_some(player.fighter) /\ unwrap(player.fighter).hp > 0
            THEN attack_two(monster_id, PLAYER, wd)
            ELSE wd

ai_take_turn(monster_id, fov, map, wd) ==
    LET monster == wd.objects[monster_id]
        player == wd.objects[PLAYER]
    IN IF pos(monster) \in fov
       THEN IF distance2_to(monster, player) >= 4
            THEN move_towards(monster_id, player.x, player.y, map, wd)
            ELSE IF is_some(player.fighter) /\ unwrap(player.fighter).hp > 0
                 THEN attack_two(monster_id, PLAYER, wd)
                 ELSE wd
       ELSE wd

Keys == {"AltEnter", "Escape", "Up", "Down", "Left", "Right", "Other"}

\* handle_keys as it would be with the fallback arm returning TookTurn
handle_keys_fallback_takes_turn(key, map, wd) ==
    CASE key = "AltEnter" -> [action |-> "DidntTakeTurn", wd |-> wd]
      [] key = "Escape" -> [action |-> "Exit", wd |-> wd]
      [] key = "Up" ->
           [action |-> "TookTurn", wd |-> player_move_or_attack(0, -1, map, wd)]
      [] key = "Down" ->
           [action |-> "TookTurn", wd |-> player_move_or_attack(0, 1, map, wd)]
      [] key = "Left" ->
           [action |-> "TookTurn", wd |-> player_move_or_attack(-1, 0, map, wd)]
      [] key = "Right" ->
           [action |-> "TookTurn", wd |-> player_move_or_attack(1, 0, map, wd)]
      [] OTHER -> [action |-> "TookTurn", wd |-> wd]

\* handle_keys: the PlayerAction and the world after the key
handle_keys(key, map, wd) ==
    CASE key = "AltEnter" -> [action |-> "DidntTakeTurn", wd |-> wd]
      [] key = "Escape" -> [action |-> "Exit", wd |-> wd]
      [] key = "Up" ->
           [action |-> "TookTurn", wd |-> player_move_or_attack(0, -1, map, wd)]
      [] key = "Down" ->
           [action |-> "TookTurn", wd |-> player_move_or_attack(0, 1, map, wd)]
      [] key = "Left" ->
           [action |-> "TookTurn", wd |-> player_move_or_attack(-1, 0, map, wd)]
      [] key = "Right" ->
           [action |-> "TookTurn", wd |-> player_move_or_attack(1, 0, map, wd)]
      [] OTHER -> [action |-> "DidntTakeTurn", wd |-> wd]

\* ------------------------------------------------------------------- state
VARIABLES
    map,                        \* game.map
    rooms,                      \* the accepted rooms, while make_map runs
    trial,                      \* the trials of make_map made so far
    objects,                    \* the registry
    fov,                        \* the cells tcod.fov holds as in the field of view
    previous_player_position,
    player_action,              \* the result of the last handle_keys
    id,                         \* the index of the AI loop of main
    pc,                         \* where main is: make_map, render, keys, ai,
                                \* done, panic
    out,                        \* the lines printed since the last render
    deaths,                     \* calls of the death callback, per index
    call                        \* the last step taken, with its input

vars == <<map, rooms, trial, objects, fov, previous_player_position, player_action, id, pc,
          out, deaths, call>>

World == [objects |-> objects, out |-> out, deaths |-> deaths, panic |-> FALSE]

\* the test of main that opens the AI round
ai_round_runs(objs, action) ==
    objs[PLAYER].alive /\ action # "DidntTakeTurn"

\* the player as it would be with an AI tag
Player0_with_ai ==
    [Object_new(0, 0, "@", "WHITE", "Player", TRUE) EXCEPT
        !.alive = TRUE,
        !.fighter = Some([max_hp |-> PlayerHp, hp |-> PlayerHp, defence |-> 2,
                          power |-> 5,
                          on_death |-> "Player"]),
        !.ai = Some("Basic")]

\* main, before the loop: the player, the NPC, make_map
Player0 ==
    [Object_new(0, 0, "@", "WHITE", "Player", TRUE) EXCEPT
        !.alive = TRUE,
        !.fighter = Some([max_hp |-> PlayerHp, hp |-> PlayerHp, defence |-> 2,
                          power |-> 5,
                          on_death |-> "Player"])]

Npc0 ==
    [Object_new(ScreenW \div 2 - 5, ScreenH \div 2, "@", "YELLOW", "NPC", TRUE)
        EXCEPT !.alive = TRUE]

\* main up to the first trial of make_map, on a grid of map_width columns
\* and map_height rows
main_start(map_width, map_height) ==
    /\ map = [x \in 0..(map_width - 1) |-> [y \in 0..(map_height - 1) |-> Tile_wall]]
    /\ rooms = <<>>
    /\ trial = 0
    /\ objects = VecPush(VecPush(EmptyVec, Player0), Npc0)
    /\ fov = {}
    /\ previous_player_position = <<-1, -1>>
    /\ player_action = "DidntTakeTurn"
    /\ id = 0
    /\ pc = "make_map"
    /\ out = <<>>
    /\ deaths = [i \in 0..1 |-> 0]
    /\ call = <<"main">>

Init == main_start(MapW, MapH)

\* one trial of the loop of make_map: the draws of w, h, x, y, the test, and
\* for an accepted room the draws of its monsters and of its tunnel; the
\* parameters stand for MAP_WIDTH, MAP_HEIGHT, ROOM_MIN_SIZE, ROOM_MAX_SIZE,
\* MAX_ROOMS and MAX_ROOM_MONSTERS
make_map_trial(map_width, map_height, room_min, room_max, max_rooms, max_monsters) ==
    /\ pc = "make_map"
    /\ trial < max_rooms
    /\ \E w \in room_min..room_max, h \in room_min..room_max :
       \E x \in 0..(map_width - w - 1), y \in 0..(map_height - h - 1) :
         LET new_room == Rect_new(x, y, w, h)
         IN IF room_failed(rooms, new_room)
            THEN /\ call' = <<"trial", new_room, FALSE>>
                 /\ UNCHANGED <<map, rooms, objects, deaths, pc>>
            ELSE \E monsters \in MonsterDrawSeqs(new_room, max_monsters),
                    coin \in IF rooms = <<>> THEN {FALSE} ELSE BOOLEAN :
                   LET g == accept_room([map |-> map, objects |-> objects,
                                         rooms |-> rooms, oob |-> FALSE],
                                        new_room, monsters, coin)
                   IN /\ map' = g.map
                      /\ rooms' = g.rooms
                      /\ objects' = g.objects
                      /\ deaths' = [i \in DOMAIN g.objects |-> 0]
                      /\ pc' = IF g.oob THEN "panic" ELSE "make_map"
                      /\ call' = <<"trial", new_room, TRUE>>
    /\ trial' = trial + 1
    /\ UNCHANGED <<fov, previous_player_position, player_action, id, out>>

MakeMapTrial ==
    make_map_trial(MapW, MapH, RoomMin, RoomMax, MaxRooms, MaxRoomMonsters)

\* make_map returns; the FOV map is populated from the tiles
make_map_return(max_rooms) ==
    /\ pc = "make_map"
    /\ trial = max_rooms
    /\ rooms' = <<>>
    /\ pc' = "render"
    /\ call' = <<"make_map">>
    /\ UNCHANGED <<map, trial, objects, fov, previous_player_position,
                   player_action, id, out, deaths>>

MakeMapReturn == make_map_return(MaxRooms)

\* the flag as it would be if only the first iteration set it
fov_recompute_first_only(previous, player) == previous = <<-1, -1>>

\* let fov_recompute = previous_player_position != (player.x, player.y)
fov_recompute(previous, player) == previous # <<player.x, player.y>>

\* the tile loop as it would be if it wrote `*explored = visible`
explore_visible_overwrites(tiles, seen) ==
    [x \in DOMAIN tiles |-> [y \in DOMAIN tiles[x] |->
        [tiles[x][y] EXCEPT !.explored = (<<x, y>> \in seen)]]]

\* the tile loop of render_all: if visible { *explored = true }
explore_visible(tiles, seen) ==
    [x \in DOMAIN tiles |-> [y \in DOMAIN tiles[x] |->
        IF <<x, y>> \in seen
        THEN [tiles[x][y] EXCEPT !.explored = TRUE]
        ELSE tiles[x][y]]]

\* the head of the loop up to the wait for a key: render_all with
\* fov_recompute, then previous_player_position = objects[PLAYER].pos()
Render ==
    /\ pc = "render"
    /\ LET player == objects[PLAYER]
           recompute == fov_recompute(previous_player_position, player)
           seen == IF recompute THEN compute_fov(map, player.x, player.y)
                   ELSE fov
       IN /\ fov' = seen
          /\ call' = <<"render_all", recompute>>
          /\ map' = explore_visible(map, seen)
    /\ previous_player_position' = pos(objects[PLAYER])
    /\ pc' = "keys"
    /\ out' = <<>>
    /\ UNCHANGED <<rooms, trial, objects, player_action, id, deaths>>

\* the window was closed: the loop ends
WindowClosed ==
    /\ pc = "render"
    /\ pc' = "done"
    /\ call' = <<"window_closed">>
    /\ UNCHANGED <<map, rooms, trial, objects, fov, previous_player_position,
                   player_action, id, out, deaths>>

\* handle_keys, the Exit test and the test that opens the AI round
HandleKeys ==
    /\ pc = "keys"
    /\ \E key \in Keys :
         LET r == handle_keys(key, map, World)
         IN /\ call' = <<"handle_keys", key>>
            /\ player_action' = r.action
            /\ objects' = r.wd.objects
            /\ out' = r.wd.out
            /\ deaths' = r.wd.deaths
            /\ pc' = IF r.wd.panic THEN "panic"
                     ELSE IF r.action = "Exit" THEN "done"
                     ELSE IF ai_round_runs(r.wd.objects, r.action)
                          THEN "ai" ELSE "render"
    /\ id' = 0
    /\ UNCHANGED <<map, rooms, trial, fov, previous_player_position>>

\* one iteration of: for id in 0..objects.len()
AiLoop ==
    /\ pc = "ai"
    /\ LET wd == IF is_some(objects[id].ai)
                 THEN ai_take_turn(id, fov, map, World)
                 ELSE World
       IN /\ objects' = wd.objects
          /\ out' = wd.out
          /\ deaths' = wd.deaths
          /\ pc' = IF wd.panic THEN "panic"
                   ELSE IF id + 1 < VecLen(objects) THEN "ai" ELSE "render"
    /\ id' = id + 1
    /\ call' = <<"ai", id>>
    /\ UNCHANGED <<map, rooms, trial, fov, previous_player_position, player_action>>

Next ==
    MakeMapTrial \/ MakeMapReturn \/ Render \/ WindowClosed \/ HandleKeys \/ AiLoop

Spec == Init /\ [][Next]_vars

\* ------------------------------------------------- the combat functions
\* attack and take_damage as functions: objects holds an attacker (index 0)
\* and a defender (index 1) drawn from the values objects take in the game,
\* and one call is made.
MaxAmount == 2
Amounts == (-1)..MaxAmount

Ctx(o) == [obj |-> o, out |-> <<>>, deaths |-> 0]

WithHp(o, hps) ==
    {[o EXCEPT !.fighter = Some([unwrap(o.fighter) EXCEPT !.hp = h])] : h \in hps}

LiveObjects ==
    WithHp([Player0 EXCEPT !.x = 2, !.y = 2], 1..PlayerHp)
    \cup WithHp([Orc(1, 2) EXCEPT !.alive = TRUE], {10, 5})
    \cup WithHp([Troll(1, 2) EXCEPT !.alive = TRUE], {16, 12, 8, 4})

\* the dead forms: a live object after a hit that takes its last hit points
DeadObjects ==
    {o \in {attack(a, Ctx(d)).obj : a \in LiveObjects, d \in LiveObjects} :
       ~o.alive}

ObjectStates == LiveObjects \cup DeadObjects \cup {Npc0}

InitCombat ==
    /\ \E a \in ObjectStates, d \in ObjectStates :
          objects = VecPush(VecPush(EmptyVec, a), d)
    /\ map = [x \in 0..0 |-> [y \in 0..0 |-> Tile_wall]]
    /\ rooms = <<>>
    /\ trial = 0
    /\ fov = {}
    /\ previous_player_position = <<-1, -1>>
    /\ player_action = "DidntTakeTurn"
    /\ id = 0
    /\ pc = "call"
    /\ out = <<>>
    /\ deaths = [i \in 0..1 |-> 0]
    /\ call = <<"none">>

\* objects[0].attack(&mut objects[1])
CallAttack ==
    /\ pc = "call"
    /\ LET r == attack(objects[0], [Ctx(objects[1]) EXCEPT !.deaths = deaths[1]])
       IN /\ objects' = [objects EXCEPT ![1] = r.obj]
          /\ out' = r.out
          /\ deaths' = [deaths EXCEPT ![1] = r.deaths]
    /\ pc' = "return"
    /\ call' = <<"attack">>
    /\ UNCHANGED <<map, rooms, trial, fov, previous_player_position,
                   player_action, id>>

\* objects[1].take_damage(amount)
CallTakeDamage ==
    /\ pc = "call"
    /\ \E amount \in Amounts :
         LET r == take_damage([Ctx(objects[1]) EXCEPT !.deaths = deaths[1]], amount)
         IN /\ objects' = [objects EXCEPT ![1] = r.obj]
            /\ out' = r.out
            /\ deaths' = [deaths EXCEPT ![1] = r.deaths]
            /\ call' = <<"take_damage", amount>>
    /\ pc' = "return"
    /\ UNCHANGED <<map, rooms, trial, fov, previous_player_position,
                   player_action, id>>

NextCombat == CallAttack \/ CallTakeDamage

SpecCombat == InitCombat /\ [][NextCombat]_vars

\* ------------------------------------------------------- the generator
\* make_map alone, on a grid that holds several rooms of several sizes:
\* GenW, GenH, GenRoomMin, GenRoomMax, GenMaxRooms, GenMaxMonsters stand for
\* MAP_WIDTH, MAP_HEIGHT, ROOM_MIN_SIZE, ROOM_MAX_SIZE, MAX_ROOMS,
\* MAX_ROOM_MONSTERS
GenW == 7
GenH == 6
GenRoomMin == 2
GenRoomMax == 3
GenMaxRooms == 3
GenMaxMonsters == 0

InitGen == main_start(GenW, GenH)

GenTrial ==
    make_map_trial(GenW, GenH, GenRoomMin, GenRoomMax, GenMaxRooms,
                   GenMaxMonsters)

GenReturn == make_map_return(GenMaxRooms)

NextGen == GenTrial \/ GenReturn

SpecGen == InitGen /\ [][NextGen]_vars

\* ------------------------------------------- the game on tunnelled maps
\* main on a grid that holds two small rooms joined by a tunnel: TunW, TunH,
\* TunRoom, TunMaxRooms, TunMaxMonsters stand for MAP_WIDTH, MAP_HEIGHT,
\* ROOM_MIN_SIZE = ROOM_MAX_SIZE, MAX_ROOMS, MAX_ROOM_MONSTERS
TunW == 6
TunH == 5
TunRoom == 2
TunMaxRooms == 2
TunMaxMonsters == 1

InitTun == main_start(TunW, TunH)

TunTrial ==
    make_map_trial(TunW, TunH, TunRoom, TunRoom, TunMaxRooms, TunMaxMonsters)

TunReturn == make_map_return(TunMaxRooms)

NextTun ==
    TunTrial \/ TunReturn \/ Render \/ WindowClosed \/ HandleKeys \/ AiLoop

SpecTun == InitTun /\ [][NextTun]_vars

\* ------------------------------------------------------ the chase step
\* move_towards as a function: a monster (index 1) in the middle of an open
\* room, the player (index 0) at a displacement of up to MaxD cells in each
\* direction, and one call of move_towards(1, player.x, player.y)
MaxD == 5

InitStep ==
    /\ map = [x \in 0..(2 * MaxD + 2) |-> [y \in 0..(2 * MaxD + 2) |->
                IF x \in 1..(2 * MaxD + 1) /\ y \in 1..(2 * MaxD + 1)
                THEN Tile_empty ELSE Tile_wall]]
    /\ \E dx \in (-MaxD)..MaxD, dy \in (-MaxD)..MaxD :
         objects = VecPush(VecPush(EmptyVec,
                     set_pos(Player0, MaxD + 1 + dx, MaxD + 1 + dy)),
                     [Orc(MaxD + 1, MaxD + 1) EXCEPT !.alive = TRUE])
    /\ rooms = <<>>
    /\ trial = 0
    /\ fov = {}
    /\ previous_player_position = <<-1, -1>>
    /\ player_action = "DidntTakeTurn"
    /\ id = 0
    /\ pc = "call"
    /\ out = <<>>
    /\ deaths = [i \in 0..1 |-> 0]
    /\ call = <<"none">>

\* move_towards(1, objects[PLAYER].x, objects[PLAYER].y, map, objects); call
\* records the displacement and the step handed to move_by
CallMoveTowards ==
    /\ pc = "call"
    /\ LET dx == objects[PLAYER].x - objects[1].x
           dy == objects[PLAYER].y - objects[1].y
           d2 == dx * dx + dy * dy
           wd == move_towards(1, objects[PLAYER].x, objects[PLAYER].y, map, World)
       IN /\ objects' = wd.objects
          /\ out' = wd.out
          /\ deaths' = wd.deaths
          /\ pc' = IF wd.panic THEN "panic" ELSE "return"
          /\ call' = <<"move_towards", dx, dy,
                       round_unit(dx, d2), round_unit(dy, d2)>>
    /\ UNCHANGED <<map, rooms, trial, fov, previous_player_position,
                   player_action, id>>

NextStep == CallMoveTowards

SpecStep == InitStep /\ [][NextStep]_vars

\* ----------------------------------------------------------------- claims
Hp(o) == unwrap(o.fighter).hp
MoveKeys == {"Up", "Down", "Left", "Right"}
Delta(k) ==
    CASE k = "Up" -> <<0, -1>> [] k = "Down" -> <<0, 1>>
      [] k = "Left" -> <<-1, 0>> [] k = "Right" -> <<1, 0>>
\* the objects pushed by place_objects: every index after the player and the NPC
Monsters == DOMAIN objects \ {PLAYER, 1}
DiedLine == Line("You died!", "", "", 0)
Near(i) == pos(objects[i]) \in fov /\ distance2_to(objects[i], objects[PLAYER]) < 4

\* C1: a monster killed by the player's action of a step has lost its AI
\* tag, its Fighter and its blocking flag when that action ends, which is
\* before the AI round of the step starts; the AI round starts only from the
\* end of the player's action; a dead monster is never changed again, and
\* the AI loop iteration of its index does nothing.
C1_PlayerResolvedBeforeAi ==
    [][/\ \A i \in Monsters :
            /\ (call'[1] = "handle_keys" /\ objects[i].alive /\ ~objects'[i].alive)
                 => /\ ~is_some(objects'[i].ai)
                    /\ ~is_some(objects'[i].fighter)
                    /\ ~objects'[i].blocks
            /\ (is_some(objects[i].fighter) /\ call'[1] = "handle_keys")
                 => (objects'[i].alive <=> is_some(objects'[i].fighter)
                                           /\ Hp(objects'[i]) > 0)
            /\ ~objects[i].alive
                 => /\ objects'[i] = objects[i]
                    /\ call' = <<"ai", i>> => objects' = objects /\ out' = out
       /\ (pc # "ai" /\ pc' = "ai") => (pc = "keys" /\ id' = 0)
      ]_vars

\* a monster was killed by the player's action of this step, and the AI
\* loop of the same step has passed its index
C1_Witness ==
    \E i \in Monsters :
        /\ call = <<"ai", i>>
        /\ ~objects[i].alive
        /\ Len(out) >= 2
        /\ out[2] = Line("is dead!", "Orc", "", 0)
        /\ objects[PLAYER].alive

\* C2: the iterations of one AI round run one at a time in ascending index
\* order, each on the state the lower indices left: an iteration changes
\* only its own object and the player, a monster never enters a cell that
\* holds a blocking object (those moved earlier in the round included), and
\* once the player's hp is <= 0 the rest of the round neither changes the
\* player nor prints an attack.
C2_AiRoundInOrder ==
    [][pc = "ai" =>
         /\ call' = <<"ai", id>>
         /\ id' = id + 1
         /\ \A j \in DOMAIN objects \ {id, PLAYER} : objects'[j] = objects[j]
         /\ pos(objects'[id]) # pos(objects[id])
              => \A j \in DOMAIN objects \ {id} :
                    objects[j].blocks => pos(objects[j]) # pos(objects'[id])
         /\ Hp(objects[PLAYER]) <= 0
              => objects'[PLAYER] = objects[PLAYER] /\ out' = out
      ]_vars

\* the troll (lower index) killed the player in this round and the orc after
\* it, adjacent and in view, has had its iteration without attacking
C2_Witness ==
    \E j \in Monsters :
        /\ call = <<"ai", j>>
        /\ is_some(objects[j].ai)
        /\ objects[j].name = "Orc"
        /\ Near(j)
        /\ out = <<Line("attacks", "Troll", "Player", 2), DiedLine>>

\* C3: attack lowers the defender's hp by exactly max(0, power - defence),
\* a missing Fighter counting as 0; the attacker is never changed; when
\* power <= defence nothing changes at all (no object field, no death call)
\* and the one line printed is the no-effect line.
C3_AttackDamage ==
    [][call' = <<"attack">> =>
         LET a == objects[0]
             d == objects[1]
             power == IF is_some(a.fighter) THEN unwrap(a.fighter).power ELSE 0
             defence == IF is_some(d.fighter) THEN unwrap(d.fighter).defence ELSE 0
             damage == Max(0, power - defence)
         IN /\ objects'[0] = a
            /\ is_some(d.fighter) =>
                 IF is_some(objects'[1].fighter)
                 THEN Hp(objects'[1]) = Hp(d) - damage
                 ELSE Hp(d) - damage <= 0
            /\ ~is_some(d.fighter) => objects'[1] = d
            /\ power <= defence =>
                 /\ objects' = objects
                 /\ deaths' = deaths
                 /\ out' = <<Line("no effect", a.name, d.name, 0)>>
      ]_vars

\* an attack with power <= defence has returned: the NPC (no Fighter,
\* power 0) attacked a live player (defence 2)
C3_Witness ==
    /\ pc = "return"
    /\ call = <<"attack">>
    /\ objects[0] = Npc0
    /\ is_some(objects[1].fighter)
    /\ Hp(objects[1]) = PlayerHp
    /\ out = <<Line("no effect", "NPC", "Player", 0)>>

\* C4: no monster keeps a Fighter with hp <= 0 past the attack that dealt
\* the damage; the attack in which a monster dies leaves it with
\* alive=false, blocks=false, no Fighter, no AI tag, the corpse glyph and
\* the name "remains of <its name>", at the same index and position; a dead
\* monster is never changed again and, once make_map has returned, the
\* registry keeps its indices.
C4_MonsterCorpse ==
    [][/\ pc # "make_map" => DOMAIN objects' = DOMAIN objects
       /\ \A i \in Monsters :
            /\ is_some(objects'[i].fighter)
                 => Hp(objects'[i]) > 0 /\ objects'[i].alive
            /\ ~is_some(objects'[i].fighter) => ~objects'[i].alive
            /\ (objects[i].alive /\ ~objects'[i].alive)
                 => objects'[i] =
                      [objects[i] EXCEPT !.alive = FALSE, !.blocks = FALSE,
                         !.fighter = None, !.ai = None, !.sprite = "%",
                         !.colour = "DARK_RED",
                         !.name = "remains of " \o objects[i].name]
            /\ ~objects[i].alive => objects'[i] = objects[i]
      ]_vars

\* the attack that killed an orc has just ended
C4_Witness ==
    /\ call[1] = "handle_keys"
    /\ Len(out) = 2
    /\ out[2] = Line("is dead!", "Orc", "", 0)
    /\ \E i \in Monsters :
         /\ objects[i].name = "remains of Orc"
         /\ pos(objects[i]) = <<objects[PLAYER].x + Delta(call[2])[1],
                                objects[PLAYER].y + Delta(call[2])[2]>>

\* C5: in the game loop the death callback of every object has been called
\* exactly once if the object is dead (alive=false) and never if it is
\* alive, and an object whose Fighter has hp <= 0 is dead.
C5_DeathCalledOnce ==
    \A i \in DOMAIN objects :
        /\ deaths[i] = IF objects[i].alive THEN 0 ELSE 1
        /\ is_some(objects[i].fighter) /\ Hp(objects[i]) <= 0 => ~objects[i].alive

\* the player is dead, a monster is dead, a live monster stands next to the
\* dead player, and a movement key was handled after the player's death
C5_Witness ==
    /\ deaths[PLAYER] = 1
    /\ call[1] = "handle_keys"
    /\ call[2] \in MoveKeys
    /\ \E i \in Monsters : deaths[i] = 1
    /\ \E i \in Monsters : is_some(objects[i].ai) /\ Near(i)

\* C6 as claimed: take_damage on an object with alive=false changes nothing
\* and does not call the death callback.
C6_DeadTakeDamageNoOp ==
    [][(call'[1] = "take_damage" /\ ~objects[1].alive)
         => objects' = objects /\ deaths' = deaths /\ out' = out]_vars

\* C7: a movement key resolves on the target cell in this order: a Fighter
\* on the cell is attacked (the player stays, no other object changes); else
\* a blocked tile or a blocking object on the cell means no object changes
\* and nothing is printed; else the player's position becomes the cell and
\* nothing else changes.
C7_MoveOrAttack ==
    [][\A k \in MoveKeys : call' = <<"handle_keys", k>> =>
         LET x == objects[PLAYER].x + Delta(k)[1]
             y == objects[PLAYER].y + Delta(k)[2]
             fighters == {i \in DOMAIN objects :
                            is_some(objects[i].fighter) /\ pos(objects[i]) = <<x, y>>}
         IN IF fighters # {}
            THEN /\ objects'[PLAYER] = objects[PLAYER]
                 /\ \E i \in fighters :
                      /\ out' # <<>>
                      /\ out'[1][1] \in {"attacks", "no effect"}
                      /\ out'[1][2] = objects[PLAYER].name
                      /\ out'[1][3] = objects[i].name
                      /\ \A j \in DOMAIN objects \ {i} : objects'[j] = objects[j]
            ELSE IF \/ map[x][y].blocked
                    \/ \E i \in DOMAIN objects :
                         objects[i].blocks /\ pos(objects[i]) = <<x, y>>
                 THEN objects' = objects /\ out' = <<>>
                 ELSE /\ objects' = [objects EXCEPT ![PLAYER].x = x, ![PLAYER].y = y]
                      /\ out' = <<>>
      ]_vars

\* the player has pressed towards the NPC, a blocking object without a
\* Fighter on a floor tile, and has stayed in place
C7_Witness ==
    /\ call[1] = "handle_keys"
    /\ call[2] \in MoveKeys
    /\ pos(objects[1]) = <<objects[PLAYER].x + Delta(call[2])[1],
                           objects[PLAYER].y + Delta(call[2])[2]>>
    /\ ~map[objects[1].x][objects[1].y].blocked
    /\ out = <<>>

\* C8: Alt+Enter and every unrecognised key give DidntTakeTurn, change no
\* object, print nothing, call no death callback, and the loop goes back to
\* the render without an AI round; an AI round is entered only after a key
\* that gave TookTurn.
C8_NoTurnNoEffect ==
    [][/\ \A k \in Keys \ (MoveKeys \cup {"Escape"}) :
            call' = <<"handle_keys", k>> =>
               /\ player_action' = "DidntTakeTurn"
               /\ objects' = objects
               /\ deaths' = deaths
               /\ out' = out
               /\ pc' = "render"
       /\ pc' = "ai" => player_action' = "TookTurn"
      ]_vars

\* an unrecognised key was handled while a live monster stood next to the
\* live player, in view
C8_Witness ==
    /\ call = <<"handle_keys", "Other">>
    /\ objects[PLAYER].alive
    /\ \E i \in Monsters : is_some(objects[i].ai) /\ Near(i)

\* C9 as claimed: every movement key gives TookTurn, and on every step that
\* gave TookTurn the AI round is entered whenever some object carries an AI
\* tag, with no other condition. Violated: main tests objects[PLAYER].alive
\* as well, and handle_keys gives TookTurn for the movement key of a dead
\* player, so that step has no AI round.
C9_EveryTurnRunsAi ==
    [][\A k \in MoveKeys : call' = <<"handle_keys", k>> =>
         /\ player_action' = "TookTurn"
         /\ (\E i \in DOMAIN objects : is_some(objects'[i].ai)) => pc' = "ai"
      ]_vars

\* C10 as claimed: once the player is dead, no key changes any object.
C10_DeadPlayerInert ==
    [][(~objects[PLAYER].alive /\ call'[1] = "handle_keys")
         => objects' = objects]_vars

\* C11 as claimed: when the AI loop runs the step of an object with an AI
\* tag, the visibility test of the step (the object's tile is in the visible
\* set) agrees with the field of view from the position the player holds at
\* that moment, after the player's action of the step.
C11_AiSeesFromCurrentPosition ==
    [][(pc = "ai" /\ is_some(objects[id].ai)) =>
         (pos(objects[id]) \in fov
            <=> pos(objects[id]) \in
                  compute_fov(map, objects[PLAYER].x, objects[PLAYER].y))
      ]_vars

\* C12: the render at the head of a loop iteration recomputes the visible
\* set exactly when the player's position differs from the position held at
\* the head of the previous iteration (previous_player_position, which every
\* render sets to the player's position and no other step changes), and
\* always in the first iteration; a render without a recompute leaves the
\* visible set as it was; after every render the visible set is the field of
\* view from the player's position.
C12_RecomputeWhenMoved ==
    [][/\ call'[1] = "render_all" =>
            /\ call'[2] = (pos(objects[PLAYER]) # previous_player_position)
            /\ call[1] = "make_map" => call'[2]
            /\ ~call'[2] => fov' = fov
            /\ fov' = compute_fov(map, objects[PLAYER].x, objects[PLAYER].y)
            /\ previous_player_position' = pos(objects[PLAYER])
       /\ call'[1] # "render_all" =>
            previous_player_position' = previous_player_position
      ]_vars

\* a render without a recompute has followed a turn in which the player
\* stayed on its cell (an attack or a blocked move), and some cell of the
\* grid is out of view
C12_Witness ==
    /\ call = <<"render_all", FALSE>>
    /\ player_action = "TookTurn"
    /\ \E x \in DOMAIN map : \E y \in DOMAIN map[x] : <<x, y>> \notin fov

\* C13: no step takes the explored flag of a tile from true to false, and
\* after every render every tile of the visible set has explored=true.
C13_ExploredMonotonic ==
    [][/\ \A x \in DOMAIN map : \A y \in DOMAIN map[x] :
            map[x][y].explored => map'[x][y].explored
       /\ call'[1] = "render_all" =>
            \A c \in fov' : map'[c[1]][c[2]].explored
      ]_vars

\* after a render a tile seen earlier is out of view and still explored
C13_Witness ==
    /\ call[1] = "render_all"
    /\ \E x \in DOMAIN map : \E y \in DOMAIN map[x] :
         map[x][y].explored /\ <<x, y>> \notin fov

\* the non-blocked tiles of the map
Floor == {c \in (DOMAIN map) \X (DOMAIN map[0]) : ~map[c[1]][c[2]].blocked}

\* the orthogonal neighbours of a cell
Adjacent(c) == {<<c[1] + 1, c[2]>>, <<c[1] - 1, c[2]>>,
                <<c[1], c[2] + 1>>, <<c[1], c[2] - 1>>}

\* the tiles of Floor joined to the tiles of seen by orthogonal steps on Floor
RECURSIVE Reach(_)
Reach(seen) ==
    LET more == {c \in Floor \ seen : Adjacent(c) \cap seen # {}}
    IN IF more = {} THEN seen ELSE Reach(seen \cup more)

\* C14: from the first accepted room on, through every trial of make_map
\* and in the map it returns, every non-blocked tile is joined to the
\* player's start tile by a path of orthogonally adjacent non-blocked tiles.
C14_FloorConnected ==
    Floor # {} =>
        /\ pos(objects[PLAYER]) \in Floor
        /\ Floor = Reach({pos(objects[PLAYER])})

\* three rooms were accepted, no two of their centres share a column or a
\* row (both tunnels bend), and the two tunnels bend in the two orders
C14_Witness ==
    /\ Len(rooms) = 3
    /\ \A i, j \in 1..3 : i < j =>
         /\ centre(rooms[i])[1] # centre(rooms[j])[1]
         /\ centre(rooms[i])[2] # centre(rooms[j])[2]
    /\ ~map[centre(rooms[2])[1]][centre(rooms[1])[2]].blocked
    /\ map[centre(rooms[1])[1]][centre(rooms[2])[2]].blocked
    /\ ~map[centre(rooms[2])[1]][centre(rooms[3])[2]].blocked
    /\ map[centre(rooms[3])[1]][centre(rooms[2])[2]].blocked

\* the inclusive intersection test of two rectangles
Touch(a, b) == a.x1 <= b.x2 /\ a.x2 >= b.x1 /\ a.y1 <= b.y2 /\ a.y2 >= b.y1

\* C15: no two accepted rooms satisfy the inclusive intersection test (a
\* shared boundary line or corner included); a trial is rejected exactly
\* when its room satisfies the test with an accepted room, and a rejected
\* trial changes neither the map nor the registry nor the accepted rooms; an
\* accepted trial appends its room.
C15_RoomsDisjoint ==
    [][/\ \A i, j \in DOMAIN rooms' : i < j => ~Touch(rooms'[i], rooms'[j])
       /\ call'[1] = "trial" =>
            /\ call'[3] <=> \A k \in DOMAIN rooms : ~Touch(call'[2], rooms[k])
            /\ call'[3] => rooms' = Append(rooms, call'[2])
            /\ ~call'[3] => map' = map /\ objects' = objects /\ rooms' = rooms
      ]_vars

\* a trial was rejected whose room meets the accepted room, in which a
\* monster was placed, at one corner only
C15_Witness ==
    /\ call[1] = "trial"
    /\ ~call[3]
    /\ Len(rooms) = 1
    /\ call[2].x1 = rooms[1].x2
    /\ call[2].y1 = rooms[1].y2
    /\ VecLen(objects) = 3

\* C16: the first trial of make_map accepts its room; from then on, through
\* the rest of the generation, the player stands on the integer centroid
\* ((x1+x2) div 2, (y1+y2) div 2) of the first accepted room, which lies in
\* the carved interior of the room, on a tile with blocked=false and
\* block_sight=false.
C16_PlayerStartsAtFirstCentre ==
    (pc = "make_map" /\ trial >= 1) =>
        /\ rooms # <<>>
        /\ LET r == rooms[1]
               x == objects[PLAYER].x
               y == objects[PLAYER].y
           IN /\ x = (r.x1 + r.x2) \div 2
              /\ y = (r.y1 + r.y2) \div 2
              /\ r.x1 < x /\ x < r.x2
              /\ r.y1 < y /\ y < r.y2
              /\ ~map[x][y].blocked
              /\ ~map[x][y].block_sight

\* all trials are done, three rooms were accepted, and the first room has
\* odd sums of bounds, so that the centroid is rounded down
C16_Witness ==
    /\ pc = "make_map"
    /\ trial = GenMaxRooms
    /\ Len(rooms) = 3
    /\ (rooms[1].x1 + rooms[1].x2) % 2 = 1
    /\ (rooms[1].y1 + rooms[1].y2) % 2 = 1
    /\ pos(objects[PLAYER]) = <<rooms[1].x1 + 1, rooms[1].y1 + 1>>

\* the name an object was created with: monster_death prefixes "remains of "
Kind(o) ==
    CHOOSE n \in {"Player", "NPC", "Orc", "Troll"} :
        o.name = n \/ o.name = "remains of " \o n

\* C17: index 0 holds the player (the object created as the player, with
\* its Fighter) in every state; make_map only appends to the registry; once
\* make_map has returned the registry keeps its set of indices, and in every
\* step every object stays at its index, dead or alive.
C17_RegistryStable ==
    [][/\ objects'[PLAYER].name = "Player"
       /\ is_some(objects'[PLAYER].fighter)
       /\ unwrap(objects'[PLAYER].fighter).on_death = "Player"
       /\ \A i \in DOMAIN objects :
            i \in DOMAIN objects' /\ Kind(objects'[i]) = Kind(objects[i])
       /\ pc # "make_map" => DOMAIN objects' = DOMAIN objects
      ]_vars

\* the monster at the lower index is dead, the monster after it is alive,
\* the player is dead, and the AI loop has run over the registry
C17_Witness ==
    /\ VecLen(objects) = 4
    /\ ~objects[2].alive
    /\ objects[3].alive
    /\ ~objects[PLAYER].alive
    /\ call = <<"ai", 3>>

\* C18 as claimed: once make_map has returned, no two objects with
\* blocks=true stand on the same cell.
C18_BlockersExclusive ==
    pc # "make_map" =>
        \A i, j \in DOMAIN objects :
            (i < j /\ objects[i].blocks /\ objects[j].blocks)
                => pos(objects[i]) # pos(objects[j])

\* C19: the AI step of a monster m does exactly one of three things.
\* (a) m's tile is in the visible set and the squared distance to the player
\* is >= 4: nothing is printed and no other object changes; m moves to the
\* cell one chase step away if that cell is inside no blocked tile and holds
\* no blocking object, and does not change at all otherwise.
\* (b) m's tile is in the visible set, the squared distance is < 4 and the
\* player's hp is > 0: m attacks the player (m and the other monsters do not
\* change, the first line printed is m's attack on the player, and the
\* player's hp falls by max(0, power - defence)).
\* (c) otherwise (in particular m's tile is not in the visible set): nothing
\* changes and nothing is printed.
C19_BasicAiStep ==
    [][(pc = "ai" /\ is_some(objects[id].ai)) =>
         LET m == objects[id]
             p == objects[PLAYER]
             d2 == (p.x - m.x) * (p.x - m.x) + (p.y - m.y) * (p.y - m.y)
             tx == m.x + round_unit(p.x - m.x, d2)
             ty == m.y + round_unit(p.y - m.y, d2)
             free == /\ ~map[tx][ty].blocked
                     /\ \A j \in DOMAIN objects :
                          objects[j].blocks => pos(objects[j]) # <<tx, ty>>
             damage == Max(0, unwrap(m.fighter).power - unwrap(p.fighter).defence)
         IN IF pos(m) \in fov /\ d2 >= 4
            THEN /\ out' = out /\ deaths' = deaths
                 /\ objects' = IF free THEN [objects EXCEPT ![id].x = tx, ![id].y = ty]
                               ELSE objects
            ELSE IF pos(m) \in fov /\ d2 < 4 /\ Hp(p) > 0
            THEN /\ \A j \in DOMAIN objects \ {PLAYER} : objects'[j] = objects[j]
                 /\ Len(out') > Len(out)
                 /\ out'[Len(out) + 1] =
                      Line(IF damage > 0 THEN "attacks" ELSE "no effect",
                           m.name, p.name, damage)
                 /\ Hp(objects'[PLAYER]) = Hp(p) - damage
            ELSE objects' = objects /\ out' = out /\ deaths' = deaths
      ]_vars

\* in one AI round the lower-index monster, next to the player and in view,
\* has attacked the player, and the iteration of the other monster, whose
\* tile is outside the visible set, has passed
C19_Witness ==
    /\ VecLen(objects) = 4
    /\ call = <<"ai", 3>>
    /\ is_some(objects[3].ai)
    /\ pos(objects[3]) \notin fov
    /\ is_some(objects[2].ai)
    /\ Near(2)
    /\ Len(out) >= 1
    /\ out[1][1] = "attacks"
    /\ out[1][3] = "Player"

\* C20 as claimed: the chase step has both components in {-1,0,1}, and some
\* displacement at Euclidean distance >= 2 (squared distance >= 4) has the
\* zero-length step (0,0).
C20_ZeroStepAtSomeAngle ==
    /\ call[1] = "move_towards" => call[4] \in {-1, 0, 1} /\ call[5] \in {-1, 0, 1}
    /\ \E dx \in (-MaxD)..MaxD, dy \in (-MaxD)..MaxD :
         LET d2 == dx * dx + dy * dy
         IN d2 >= 4 /\ round_unit(dx, d2) = 0 /\ round_unit(dy, d2) = 0

\* C20 amended: the chase step has both components in {-1,0,1}, each zero or
\* of the sign of its displacement component; for every displacement other
\* than (0,0) the step is not (0,0), so at distance >= 2 an unobstructed
\* monster always moves, by exactly the step; the step is (0,0) only for the
\* displacement (0,0).
C20_StepNeverZero ==
    [][call'[1] = "move_towards" =>
         LET dx == call'[2]
             dy == call'[3]
             sx == call'[4]
             sy == call'[5]
         IN /\ dx = objects[PLAYER].x - objects[1].x
            /\ dy = objects[PLAYER].y - objects[1].y
            /\ sx \in {0, Sign(dx)}
            /\ sy \in {0, Sign(dy)}
            /\ (<<sx, sy>> = <<0, 0>>) <=> (<<dx, dy>> = <<0, 0>>)
            /\ dx * dx + dy * dy >= 4 =>
                 pos(objects'[1]) = <<objects[1].x + sx, objects[1].y + sy>>
      ]_vars

\* the call has returned for the displacement (1, 2), at distance sqrt(5):
\* the step was (0, 1) and the monster has moved by it
C20_Witness ==
    /\ pc = "return"
    /\ call = <<"move_towards", 1, 2, 0, 1>>
    /\ pos(objects[1]) = <<MaxD + 1, MaxD + 2>>

\* C21: the assertion of mut_two never fails. The object with a Fighter
\* that a movement key finds on the target cell is never index 0 (the target
\* cell is never the player's own cell); the player never carries an AI tag,
\* so the AI loop never runs ai_take_turn for index 0, whose attack names
\* index 0 as the defender; and no step ends in a panic.
C21_MutTwoIndicesDiffer ==
    [][/\ \A k \in MoveKeys : call' = <<"handle_keys", k>> =>
            LET x == objects[PLAYER].x + Delta(k)[1]
                y == objects[PLAYER].y + Delta(k)[2]
            IN /\ <<x, y>> # pos(objects[PLAYER])
               /\ \A i \in DOMAIN objects :
                    (is_some(objects[i].fighter) /\ pos(objects[i]) = <<x, y>>)
                        => i # PLAYER
       /\ ~is_some(objects'[PLAYER].ai)
       /\ (pc = "ai" /\ is_some(objects[id].ai)) => id # PLAYER
       /\ pc' # "panic"
      ]_vars

\* a monster standing on the player's own cell has attacked the player in
\* the AI round that followed the player's attack on another monster
C21_Witness ==
    \E i \in Monsters :
        /\ call = <<"ai", i>>
        /\ pos(objects[i]) = pos(objects[PLAYER])
        /\ Len(out) >= 2
        /\ out[1][1] = "attacks"
        /\ out[1][2] = "Player"
        /\ out[Len(out)][2] = objects[i].name
        /\ out[Len(out)][3] = "Player"

\* the cells of the outermost rows and columns of the grid
Ring ==
    {c \in (DOMAIN map) \X (DOMAIN map[0]) :
        \/ c[1] = 0 \/ c[1] = VecLen(map) - 1
        \/ c[2] = 0 \/ c[2] = VecLen(map[0]) - 1}

\* C22: no grid access is out of bounds. Every tile of the outermost ring of
\* the grid is blocked in every state; every monster, and from the first
\* accepted room on the player, stands on a non-blocked tile inside the
\* grid, hence off the ring; every cell one step away from such a cell in any
\* of the eight directions, which includes every target cell that a player
\* move or an AI move hands to is_blocked, is inside the grid; and no step
\* has panicked.
C22_NoOutOfBounds ==
    /\ \A c \in Ring : map[c[1]][c[2]].blocked
    /\ \A i \in DOMAIN objects :
         (i \in Monsters \/ (i = PLAYER /\ (pc # "make_map" \/ rooms # <<>>))) =>
            /\ objects[i].x \in DOMAIN map
            /\ objects[i].y \in DOMAIN map[0]
            /\ ~map[objects[i].x][objects[i].y].blocked
            /\ \A dx, dy \in {-1, 0, 1} :
                 /\ objects[i].x + dx \in DOMAIN map
                 /\ objects[i].y + dy \in DOMAIN map[0]
    /\ pc # "panic"

\* the player, in the leftmost floor column, has pressed Left against the
\* ring, and a live monster stands in the rightmost floor column
C22_Witness ==
    /\ call = <<"handle_keys", "Left">>
    /\ objects[PLAYER].x = 1
    /\ map[0][objects[PLAYER].y].blocked
    /\ \E i \in Monsters :
         objects[i].alive /\ objects[i].x = VecLen(map) - 2

\* liveness and hp agree, and hp is at most max_hp
Agrees(o) ==
    is_some(o.fighter) =>
        /\ o.alive <=> unwrap(o.fighter).hp > 0
        /\ unwrap(o.fighter).hp <= unwrap(o.fighter).max_hp

\* C23: before and after every step, every object with a Fighter has
\* alive=true if and only if its hp is > 0, and hp <= max_hp; no step raises
\* the hp or changes the max_hp of an object that keeps its Fighter; and no
\* step makes an object with alive=false alive.
C23_AliveIffHpPositive ==
    [][/\ \A i \in DOMAIN objects : Agrees(objects[i])
       /\ \A i \in DOMAIN objects' : Agrees(objects'[i])
       /\ \A i \in DOMAIN objects :
            /\ (is_some(objects[i].fighter) /\ is_some(objects'[i].fighter)) =>
                 /\ Hp(objects'[i]) <= Hp(objects[i])
                 /\ unwrap(objects'[i].fighter).max_hp
                      = unwrap(objects[i].fighter).max_hp
            /\ ~objects[i].alive => ~objects'[i].alive
      ]_vars

\* the player is dead with a negative hp, one monster is a corpse, and a
\* wounded monster is alive
C23_Witness ==
    /\ ~objects[PLAYER].alive
    /\ Hp(objects[PLAYER]) < 0
    /\ \E i \in Monsters : ~objects[i].alive /\ ~is_some(objects[i].fighter)
    /\ \E i \in Monsters :
         /\ objects[i].alive
         /\ Hp(objects[i]) > 0
         /\ Hp(objects[i]) < unwrap(objects[i].fighter).max_hp
====
